---------------------------- MODULE Spec2Model ----------------------------
(***************************************************************************)
(* Model of src/src/main.cpp: the ESP32 WiFi provisioning firmware.        *)
(*                                                                         *)
(* Threads of the firmware:                                                *)
(*   - the Arduino main task: setup(), then loop() (factory reset);        *)
(*   - the async TCP task, which runs handle_wifi_setup once per body      *)
(*     chunk of a POST /set_wifi request, one invocation at a time;        *)
(*   - one FreeRTOS task per successful xTaskCreate(connectToWiFi, ...);   *)
(*   - the radio, which associates or loses its association on its own.    *)
(*                                                                         *)
(* Strings are sequences of byte values (a C string without its NUL).      *)
(***************************************************************************)
EXTENDS Integers, Sequences, FiniteSets, TLC

(***************************************************************************)
(* Program constants.                                                      *)
(***************************************************************************)
\* uint8_t encrypted_data[64]: capacity handed to mbedtls_base64_decode
EncBufSize == 64
\* the first 16 decoded bytes are the IV; encrypted_len < 16 is rejected
IvLen == 16
\* char decrypted[128] in handle_wifi_setup, passed as output_size
OutputSize == 128
\* the AES block: mbedtls_aes_crypt_cbc works on whole blocks of 16 bytes
BlockSize == 16
\* the field width of both conversions of "%63[^|]|%63s"
FieldWidth == 63
\* '|', the separator of the scanset and the literal of the sscanf format
Pipe == 124
\* attempts < 20 in connectToWiFi and in setup
MaxAttempts == 20
\* millis() - pressStartTime >= 5000 in loop
HoldMs == 5000
\* delay(100) at the end of loop
LoopDelay == 100
\* delay(2000) in factory_reset
ResetDelay == 2000
\* Time is counted in ticks of 4 ms, the largest unit that divides 100,
\* 2000, 5000 and 2^32.
Tick == 4
\* millis() and pressStartTime are unsigned long, 32 bits: they count
\* milliseconds modulo 2^32, that is ticks modulo 2^30
Wrap == 1073741824

(***************************************************************************)
(* Bounds of the model.                                                    *)
(***************************************************************************)
\* POST /set_wifi requests received over the whole run
MaxRequests == 2
\* iterations of loop() followed in LoopSpec
MaxPolls == 12
\* length of the strings clean_string is called on
MaxCleanLen == 3
\* length of the short strings sscanf is called on
MaxParseLen == 4
\* decoded length of the payloads decrypt_wifi_credentials is called on
\* (and three lengths around output_size + 16)
MaxDecodedLen == 66

(***************************************************************************)
(* Byte strings used as inputs.  72 'H', 78 'N', 115 's', 120 'x'.         *)
(***************************************************************************)
HomeSsid == <<72>>
HomePass == <<115>>
OtherSsid == <<78>>
OtherPass == <<120>>
\* "H|s": the credentials of the network that is in range
PlainHome == <<72, 124, 115>>
\* "N|x": credentials no access point accepts
PlainOther == <<78, 124, 120>>
\* "Hs": no separator
PlainNoSep == <<72, 115>>

\* The networks in range, as <<ssid, password>>: association can succeed
\* only with one of these.
GoodNets == { <<HomeSsid, HomePass>> }

(***************************************************************************)
(* clean_string, as the loop computes it: i scans, j is Len(out).  The     *)
(* comparisons read a char: a byte above 0x7F is negative where char is    *)
(* signed and above 0x7E where it is not, and fails the test either way.   *)
(***************************************************************************)
\* The loop with i advanced once more after a byte is dropped.
RECURSIVE clean_loop_skips_next(_, _, _)
clean_loop_skips_next(str, i, out) ==
    IF i > Len(str) THEN out
    ELSE IF str[i] > 31 /\ str[i] < 127
         THEN clean_loop_skips_next(str, i + 1, Append(out, str[i]))
         ELSE IF i + 1 > Len(str) THEN out
         ELSE clean_loop_skips_next(str, i + 2, Append(out, str[i + 1]))

\* The loop with the upper test written str[i] <= 0x7F.
RECURSIVE clean_loop_keeps_del(_, _, _)
clean_loop_keeps_del(str, i, out) ==
    IF i > Len(str) THEN out
    ELSE IF str[i] > 31 /\ str[i] <= 127
         THEN clean_loop_keeps_del(str, i + 1, Append(out, str[i]))
         ELSE clean_loop_keeps_del(str, i + 1, out)

RECURSIVE clean_loop(_, _, _)
clean_loop(str, i, out) ==
    IF i > Len(str) THEN out
    ELSE IF str[i] > 31 /\ str[i] < 127
         THEN clean_loop(str, i + 1, Append(out, str[i]))
         ELSE clean_loop(str, i + 1, out)

\* clean_string that leaves the string as it is.
clean_string_noop(str) == str

clean_string(str) == clean_loop(str, 1, << >>)

(***************************************************************************)
(* sscanf(credentials, "%63[^|]|%63s", wifi_ssid, wifi_password).          *)
(***************************************************************************)
\* isspace() in the C locale
IsSpace(c) == c = 32 \/ (c >= 9 /\ c <= 13)

\* %63[^|] from position i: the number of bytes it takes (no leading
\* white space is skipped by a scanset)
RECURSIVE ScanSetLen(_, _, _)
ScanSetLen(s, i, n) ==
    IF i > Len(s) \/ n = FieldWidth \/ s[i] = Pipe THEN n
    ELSE ScanSetLen(s, i + 1, n + 1)

\* the white space %s skips before its field, from position i
RECURSIVE SkipSpace(_, _)
SkipSpace(s, i) ==
    IF i > Len(s) \/ ~IsSpace(s[i]) THEN i ELSE SkipSpace(s, i + 1)

\* %63s from position i (white space skipped): the bytes it takes
RECURSIVE ScanWordLen(_, _, _)
ScanWordLen(s, i, n) ==
    IF i > Len(s) \/ n = FieldWidth \/ IsSpace(s[i]) THEN n
    ELSE ScanWordLen(s, i + 1, n + 1)

\* A split at the first '|' that does not look whether both parts are
\* there: it always reports two fields.
sscanf_split(credentials) ==
    LET n1 == ScanSetLen(credentials, 1, 0)
    IN  [n |-> 2,
         wifi_ssid |-> SubSeq(credentials, 1, n1),
         wifi_password |-> SubSeq(credentials, n1 + 2, Len(credentials))]

\* n is sscanf's return value: the number of conversions assigned
\* (EOF, -1, when the input ends before the first one).
sscanf(credentials) ==
    LET n1 == ScanSetLen(credentials, 1, 0)
        wifi_ssid == SubSeq(credentials, 1, n1)
    IN  IF credentials = << >>
        THEN [n |-> -1, wifi_ssid |-> << >>, wifi_password |-> << >>]
        ELSE IF n1 = 0
        THEN [n |-> 0, wifi_ssid |-> << >>, wifi_password |-> << >>]
        ELSE IF n1 + 1 > Len(credentials) \/ credentials[n1 + 1] # Pipe
        THEN [n |-> 1, wifi_ssid |-> wifi_ssid, wifi_password |-> << >>]
        ELSE LET j  == SkipSpace(credentials, n1 + 2)
                 n2 == ScanWordLen(credentials, j, 0)
             IN  IF n2 = 0
                 THEN [n |-> 1, wifi_ssid |-> wifi_ssid,
                       wifi_password |-> << >>]
                 ELSE [n |-> 2, wifi_ssid |-> wifi_ssid,
                       wifi_password |-> SubSeq(credentials, j, j + n2 - 1)]

(***************************************************************************)
(* What handle_wifi_setup reads at `data`.                                 *)
(*   kind  "badjson": deserializeJson reports an error                     *)
(*         "nodata" : a JSON document without the key "data"               *)
(*         "data"   : a JSON document whose "data" is the text described   *)
(*                    by the other fields                                  *)
(*   b64   the text is valid base64                                        *)
(*   len   the number of bytes it decodes to                               *)
(*   pt    the C string left in `output` by mbedtls_aes_crypt_cbc and the  *)
(*         NUL written at output[ciphertext_len]                           *)
(***************************************************************************)
View(kind, b64, len, pt) == [kind |-> kind, b64 |-> b64, len |-> len, pt |-> pt]

BadJson == View("badjson", FALSE, 0, << >>)
NoData  == View("nodata", FALSE, 0, << >>)

Payloads ==
    { View("data", FALSE, 0, << >>),          \* not base64
      View("data", TRUE, 65, << >>),          \* decodes to more than 64 bytes
      View("data", TRUE, 10, << >>),          \* decodes to less than 16 bytes
      View("data", TRUE, 16, << >>),          \* the IV alone
      View("data", TRUE, 32, PlainHome),
      View("data", TRUE, 32, PlainOther),
      View("data", TRUE, 32, PlainNoSep) }

\* The bodies a client posts.
Bodies == {BadJson, NoData} \cup Payloads

\* The bodies that arrive split over two TCP segments.
SplitBodies == { View("data", TRUE, 32, PlainHome) }

\* A split body reaches the handler as two fragments.
\* `data` is not NUL-terminated and the handler ignores len, so what
\* deserializeJson makes of a fragment depends on the bytes after it: an
\* error, or a document without "data" (a suffix such as "} read as a
\* string).
FragmentViews == {BadJson, NoData}

\* mbedtls_base64_decode(encrypted_data, sizeof(encrypted_data), ...)
mbedtls_base64_decode(v, dlen) ==
    IF ~v.b64 THEN "INVALID_CHARACTER"
    ELSE IF v.len > dlen THEN "BUFFER_TOO_SMALL"
    ELSE "OK"

\* What decrypt_wifi_credentials returns and leaves: ok its result, why the
\* branch it returned from, output the C string in `output`, nul the index
\* at which it wrote the terminating NUL (-1: none written).
Rejected(why) == [ok |-> FALSE, why |-> why, output |-> << >>, nul |-> -1]

Decrypted(v) ==
    [ok |-> TRUE, why |-> "ok", output |-> v.pt, nul |-> v.len - IvLen]

\* decrypt_wifi_credentials without the check of line 61.
decrypt_without_iv_check(v, output_size) ==
    IF mbedtls_base64_decode(v, EncBufSize) # "OK" THEN Rejected("base64")
    ELSE IF v.len - IvLen >= output_size THEN Rejected("small")
    ELSE Decrypted(v)

\* decrypt_wifi_credentials with the result of mbedtls_aes_crypt_cbc looked
\* at: a ciphertext that is not a whole number of blocks is refused.
decrypt_rejects_partial_block(v, output_size) ==
    IF mbedtls_base64_decode(v, EncBufSize) # "OK" THEN Rejected("base64")
    ELSE IF v.len < IvLen THEN Rejected("short")
    ELSE IF v.len - IvLen >= output_size THEN Rejected("small")
    ELSE IF (v.len - IvLen) % BlockSize # 0 THEN Rejected("aes")
    ELSE Decrypted(v)

decrypt_wifi_credentials(v, output_size) ==
    IF mbedtls_base64_decode(v, EncBufSize) # "OK" THEN Rejected("base64")
    ELSE IF v.len < IvLen THEN Rejected("short")
    ELSE IF v.len - IvLen >= output_size THEN Rejected("small")
    ELSE Decrypted(v)

(***************************************************************************)
(* handle_wifi_setup up to its last request->send: the response, whether   *)
(* the invocation goes on to delay(1000) and xTaskCreate, and the content  *)
(* of `decrypted`.                                                         *)
(***************************************************************************)
Response(code, text) == [code |-> code, text |-> text]

handle_wifi_setup(v) ==
    IF v.kind = "badjson"
    THEN [resp |-> Response(400, "Invalid JSON"),
          dispatch |-> FALSE, decrypted |-> << >>]
    ELSE IF v.kind = "nodata"
    THEN [resp |-> Response(400, "Missing 'data' parameter"),
          dispatch |-> FALSE, decrypted |-> << >>]
    ELSE LET d == decrypt_wifi_credentials(v, OutputSize)
         IN  IF ~d.ok
             THEN [resp |-> Response(400, "Decryption Failed"),
                   dispatch |-> FALSE, decrypted |-> << >>]
             ELSE [resp |-> Response(200, "WiFi Credentials Processing..."),
                   dispatch |-> TRUE, decrypted |-> d.output]

(***************************************************************************)
(* State.                                                                  *)
(***************************************************************************)
VARIABLES
    pcMain,        \* where the main task is: "boot", "setup_poll",
                   \* "setup_check", "loop", "reset_delay", "halted"
    prefs,         \* Preferences namespace "wifi": [ssid, password]
    attempts,      \* setup's local `attempts`
    serverUp,      \* server.begin() has run
    apActive,      \* the soft access point is up
    staCfg,        \* <<ssid, password>> given to the last WiFi.begin,
                   \* << >> when the station is not configured
    staConnected,  \* WiFi.status() == WL_CONNECTED
    nreq,          \* requests received so far
    pending,       \* the request whose second fragment is still to come:
                   \* << >> or <<[req, body]>>
    hpc,           \* the async TCP task: "idle", or "delay" inside
                   \* handle_wifi_setup's delay(1000)
    decrypted,     \* handle_wifi_setup's local buffer during the delay
    inv,           \* the invocations of handle_wifi_setup since boot
    heap,          \* per invocation, the strdup'd buffer: "none", "null"
                   \* (strdup returned NULL), "live", "freed"
    tasks,         \* the connectToWiFi tasks, by creating invocation
    call,          \* a function called on its own: [fn, arg, ret, prev, n]:
                   \* ret its result, n the number of times it has been
                   \* applied, prev the result of the application before
    pressStartTime,\* loop's global: millis() at the first poll of a press
                   \* (in ticks), 0 when the button is not held
    millis,        \* the value millis() returns, in ticks
    level,         \* what digitalRead(bootButtonPin) returned at the last
                   \* poll of loop(): "LOW" (pressed) or "HIGH"
    lowSince,      \* the time of the first poll of the current run of
                   \* polls that read LOW, -1 when the last poll read HIGH
    polls          \* iterations of loop() so far

progVars == <<pcMain, prefs, attempts, serverUp, apActive, staCfg,
              staConnected, nreq, pending, hpc, decrypted, inv, heap, tasks>>

unitVars == <<call>>
loopVars == <<pressStartTime, millis, level, lowSince, polls>>

vars == <<progVars, unitVars, loopVars>>

mainVars  == <<pcMain, attempts, serverUp>>
radioVars == <<apActive, staCfg, staConnected>>
httpVars  == <<nreq, pending, hpc, decrypted, inv>>

NoCfg == << >>
\* no function is being called on its own
NoCall == [fn |-> "none", arg |-> << >>, ret |-> << >>, prev |-> << >>,
           n |-> 0]
\* loop() has not polled the button yet (the timing of loop() is followed
\* in LoopSpec only)
NoPress ==
    /\ pressStartTime = 0
    /\ millis = 0
    /\ level = "HIGH"
    /\ lowSince = -1
    /\ polls = 0
NoPrefs == [ssid |-> << >>, password |-> << >>]

\* What the store may hold when the device is powered on: nothing, or the
\* record a connection attempt of an earlier run wrote.
InitPrefs ==
    { NoPrefs,
      [ssid |-> HomeSsid, password |-> HomePass],
      [ssid |-> OtherSsid, password |-> OtherPass] }

\* The program at power-on.
ProgInit ==
    /\ pcMain = "boot"
    /\ prefs \in InitPrefs
    /\ attempts = 0
    /\ serverUp = FALSE
    /\ apActive = FALSE
    /\ staCfg = NoCfg
    /\ staConnected = FALSE
    /\ nreq = 0
    /\ pending = << >>
    /\ hpc = "idle"
    /\ decrypted = << >>
    /\ inv = << >>
    /\ heap = << >>
    /\ tasks = << >>

Init ==
    /\ ProgInit
    /\ call = NoCall
    /\ NoPress

(***************************************************************************)
(* The radio.                                                              *)
(***************************************************************************)
\* WiFi.begin(ssid, password): a configuration equal to the current one
\* keeps an established association, any other ends it.
WiFiBegin(cfg) ==
    /\ staCfg' = cfg
    /\ staConnected' = (staConnected /\ staCfg = cfg)

\* The station associates: only with credentials of a network in range.
Associate ==
    /\ ~staConnected
    /\ staCfg \in GoodNets
    /\ staConnected' = TRUE
    /\ UNCHANGED <<mainVars, prefs, apActive, staCfg, httpVars,
                   heap, tasks>>
    /\ UNCHANGED <<unitVars, loopVars>>

\* The association is lost (the station keeps its configuration and may
\* associate again).
Drop ==
    /\ staConnected
    /\ staConnected' = FALSE
    /\ UNCHANGED <<mainVars, prefs, apActive, staCfg, httpVars, heap, tasks>>
    /\ UNCHANGED <<unitVars, loopVars>>

(***************************************************************************)
(* setup().                                                                *)
(***************************************************************************)
\* server.on(...) three times, server.begin(), return to loop()
StartServer ==
    /\ serverUp' = TRUE
    /\ pcMain' = "loop"

\* Lines 271-306: display.begin (a failure halts in while (true)), the read
\* of the stored credentials, and either WiFi.mode(WIFI_STA) and WiFi.begin
\* or start_ap_mode and the server.
SetupBegin ==
    /\ pcMain = "boot"
    /\ \E displayOk \in BOOLEAN :
        IF ~displayOk
        THEN /\ pcMain' = "halted"
             /\ UNCHANGED <<attempts, serverUp, radioVars>>
        ELSE LET storedSSID == prefs.ssid
                 storedPassword == prefs.password
             IN  IF storedSSID # << >> /\ storedPassword # << >>
                 THEN /\ apActive' = FALSE
                      /\ WiFiBegin(<<storedSSID, storedPassword>>)
                      /\ attempts' = 0
                      /\ pcMain' = "setup_poll"
                      /\ UNCHANGED serverUp
                 ELSE /\ apActive' = TRUE
                      /\ StartServer
                      /\ UNCHANGED <<attempts, staCfg, staConnected>>
    /\ UNCHANGED <<prefs, httpVars, heap, tasks>>
    /\ UNCHANGED <<unitVars, loopVars>>

\* One evaluation of the while condition at line 301, and the body.
SetupPoll ==
    /\ pcMain = "setup_poll"
    /\ IF ~staConnected /\ attempts < MaxAttempts
       THEN /\ attempts' = attempts + 1
            /\ UNCHANGED pcMain
       ELSE /\ pcMain' = "setup_check"
            /\ UNCHANGED attempts
    /\ UNCHANGED <<prefs, serverUp, radioVars, httpVars, heap, tasks>>
    /\ UNCHANGED <<unitVars, loopVars>>

\* SetupCheck without the else branch of line 321: no start_ap_mode.
SetupCheck_without_fallback ==
    /\ pcMain = "setup_check"
    /\ attempts' = 0
    /\ StartServer
    /\ UNCHANGED <<prefs, radioVars, httpVars, heap, tasks>>
    /\ UNCHANGED <<unitVars, loopVars>>

\* Lines 308-339: the second read of WiFi.status(), start_ap_mode when it is
\* not WL_CONNECTED, then the server; setup returns and its locals are gone.
SetupCheck ==
    /\ pcMain = "setup_check"
    /\ apActive' = IF staConnected THEN apActive ELSE TRUE
    /\ attempts' = 0
    /\ StartServer
    /\ UNCHANGED <<prefs, staCfg, staConnected, httpVars, heap, tasks>>
    /\ UNCHANGED <<unitVars, loopVars>>

(***************************************************************************)
(* POST /set_wifi: the body handler handle_wifi_setup, called by the async *)
(* TCP task once per chunk of the body (setup registers it as the body     *)
(* callback; the request callback is an empty lambda).                     *)
(***************************************************************************)
\* One invocation of handle_wifi_setup, up to its return or its delay(1000):
\* r is the request, body what the client posted, index the chunk's number
\* (0 or 1), split whether the body arrives in two chunks, v what the
\* handler reads at `data`.
Invoke(r, body, index, split, v) ==
    LET h == handle_wifi_setup(v)
    IN  /\ inv' = Append(inv, [req |-> r, body |-> body, index |-> index,
                               split |-> split, view |-> v,
                               resp |-> h.resp, created |-> FALSE])
        /\ heap' = Append(heap, "none")
        /\ hpc' = IF h.dispatch THEN "delay" ELSE "idle"
        /\ decrypted' = h.decrypted

\* A request whose body arrives in one chunk (index = 0, len = total).
ReceiveWhole ==
    /\ serverUp
    /\ hpc = "idle"
    /\ pending = << >>
    /\ nreq < MaxRequests
    /\ \E body \in Bodies :
        Invoke(nreq + 1, body, 0, FALSE, body)
    /\ nreq' = nreq + 1
    /\ UNCHANGED <<mainVars, prefs, radioVars, pending, tasks>>
    /\ UNCHANGED <<unitVars, loopVars>>

\* The first chunk of a request whose body arrives in two.
ReceiveFirst ==
    /\ serverUp
    /\ hpc = "idle"
    /\ pending = << >>
    /\ nreq < MaxRequests
    /\ \E body \in SplitBodies, v \in FragmentViews :
        /\ Invoke(nreq + 1, body, 0, TRUE, v)
        /\ pending' = <<[req |-> nreq + 1, body |-> body]>>
    /\ nreq' = nreq + 1
    /\ UNCHANGED <<mainVars, prefs, radioVars, tasks>>
    /\ UNCHANGED <<unitVars, loopVars>>

\* Its second chunk (index > 0).
ReceiveSecond ==
    /\ serverUp
    /\ hpc = "idle"
    /\ pending # << >>
    /\ \E v \in FragmentViews :
        Invoke(pending[1].req, pending[1].body, 1, TRUE, v)
    /\ pending' = << >>
    /\ UNCHANGED <<mainVars, prefs, radioVars, nreq, tasks>>
    /\ UNCHANGED <<unitVars, loopVars>>

\* A new task record: connectToWiFi has not run yet.
NewTask(parameter) ==
    [pc |-> "start", credentials |-> parameter, wifi_ssid |-> << >>,
     wifi_password |-> << >>, attempts |-> 0, outcome |-> "none",
     capped |-> FALSE, puts |-> 0]

\* Line 218, after the delay: strdup(decrypted) may return NULL, and
\* xTaskCreate may fail for want of memory; neither result is looked at.
Dispatch ==
    /\ hpc = "delay"
    /\ \E strdupOk \in BOOLEAN, createOk \in BOOLEAN :
        LET i == Len(inv)
        IN  /\ heap' = [heap EXCEPT ![i] = IF strdupOk THEN "live" ELSE "null"]
            /\ IF createOk
               THEN /\ tasks' = (i :> NewTask(IF strdupOk THEN decrypted
                                                          ELSE << >>)) @@ tasks
                    /\ inv' = [inv EXCEPT ![i].created = TRUE]
               ELSE UNCHANGED <<tasks, inv>>
    /\ hpc' = "idle"
    /\ decrypted' = << >>
    /\ UNCHANGED <<mainVars, prefs, radioVars, nreq, pending>>
    /\ UNCHANGED <<unitVars, loopVars>>

(***************************************************************************)
(* connectToWiFi, the task created by invocation i.                        *)
(***************************************************************************)
\* vTaskDelete(NULL): the task and its locals are gone; what is kept is how
\* it ended, whether its loop had run to the cap, and how many putString
\* calls it made.
End(t, outcome) ==
    [t EXCEPT !.pc = "done", !.outcome = outcome, !.credentials = << >>,
              !.wifi_ssid = << >>, !.wifi_password = << >>, !.attempts = 0,
              !.capped = (t.attempts = MaxAttempts)]

\* Lines 128-149: the NULL check, sscanf, clean_string twice and
\* WiFi.disconnect(); the task then sleeps in delay(1000).
TaskStart(i) ==
    /\ tasks[i].pc = "start"
    /\ IF heap[i] = "null"
       THEN /\ tasks' = [tasks EXCEPT ![i] = End(@, "null")]
            /\ UNCHANGED <<heap, radioVars>>
       ELSE LET s == sscanf(tasks[i].credentials)
            IN  IF s.n # 2
                THEN /\ tasks' = [tasks EXCEPT ![i] = End(@, "badformat")]
                     /\ heap' = [heap EXCEPT ![i] = "freed"]
                     /\ UNCHANGED radioVars
                ELSE /\ tasks' = [tasks EXCEPT
                            ![i].wifi_ssid = clean_string(s.wifi_ssid),
                            ![i].wifi_password = clean_string(s.wifi_password),
                            ![i].pc = "delay"]
                     /\ staCfg' = NoCfg
                     /\ staConnected' = FALSE
                     /\ UNCHANGED <<heap, apActive>>
    /\ UNCHANGED <<mainVars, prefs, httpVars>>
    /\ UNCHANGED <<unitVars, loopVars>>

\* Lines 150-153: WiFi.mode(WIFI_STA) switches the access point off,
\* WiFi.begin configures the station.
TaskBegin(i) ==
    /\ tasks[i].pc = "delay"
    /\ apActive' = FALSE
    /\ WiFiBegin(<<tasks[i].wifi_ssid, tasks[i].wifi_password>>)
    /\ tasks' = [tasks EXCEPT ![i].pc = "poll"]
    /\ UNCHANGED <<mainVars, prefs, httpVars, heap>>
    /\ UNCHANGED <<unitVars, loopVars>>

\* TaskPoll with a loop that only ends once the station is connected.
TaskPoll_uncapped(i) ==
    /\ tasks[i].pc = "poll"
    /\ IF ~staConnected
       THEN tasks' = [tasks EXCEPT ![i].attempts = @ + 1]
       ELSE tasks' = [tasks EXCEPT ![i].pc = "check"]
    /\ UNCHANGED <<mainVars, prefs, radioVars, httpVars, heap>>
    /\ UNCHANGED <<unitVars, loopVars>>

\* One evaluation of the while condition at line 154, and the body.
TaskPoll(i) ==
    /\ tasks[i].pc = "poll"
    /\ IF ~staConnected /\ tasks[i].attempts < MaxAttempts
       THEN tasks' = [tasks EXCEPT ![i].attempts = @ + 1]
       ELSE tasks' = [tasks EXCEPT ![i].pc = "check"]
    /\ UNCHANGED <<mainVars, prefs, radioVars, httpVars, heap>>
    /\ UNCHANGED <<unitVars, loopVars>>

\* TaskCheck with the two putString calls moved after the if statement: the
\* task writes "ssid" whatever WiFi.status() returns.
TaskCheck_put_after_if(i) ==
    /\ tasks[i].pc = "check"
    /\ prefs' = [prefs EXCEPT !.ssid = tasks[i].wifi_ssid]
    /\ IF staConnected
       THEN /\ tasks' = [tasks EXCEPT ![i].pc = "put_password",
                                      ![i].puts = @ + 1]
            /\ UNCHANGED heap
       ELSE /\ tasks' = [tasks EXCEPT ![i] = End(@, "failed")]
            /\ heap' = [heap EXCEPT ![i] = "freed"]
    /\ UNCHANGED <<mainVars, radioVars, httpVars>>
    /\ UNCHANGED <<unitVars, loopVars>>

\* Lines 161-175 or 179-184: the second read of WiFi.status(); connected,
\* the task writes "ssid"; otherwise it frees its parameter and ends.
TaskCheck(i) ==
    /\ tasks[i].pc = "check"
    /\ IF staConnected
       THEN /\ prefs' = [prefs EXCEPT !.ssid = tasks[i].wifi_ssid]
            /\ tasks' = [tasks EXCEPT ![i].pc = "put_password",
                                      ![i].puts = @ + 1]
            /\ UNCHANGED heap
       ELSE /\ tasks' = [tasks EXCEPT ![i] = End(@, "failed")]
            /\ heap' = [heap EXCEPT ![i] = "freed"]
            /\ UNCHANGED prefs
    /\ UNCHANGED <<mainVars, radioVars, httpVars>>
    /\ UNCHANGED <<unitVars, loopVars>>

\* Lines 176-184: the write of "password", free(parameter), vTaskDelete.
TaskPutPassword(i) ==
    /\ tasks[i].pc = "put_password"
    /\ prefs' = [prefs EXCEPT !.password = tasks[i].wifi_password]
    /\ tasks' = [tasks EXCEPT ![i] = [End(@, "connected") EXCEPT !.puts = @ + 1]]
    /\ heap' = [heap EXCEPT ![i] = "freed"]
    /\ UNCHANGED <<mainVars, radioVars, httpVars>>
    /\ UNCHANGED <<unitVars, loopVars>>

(***************************************************************************)
(* factory_reset(), called by loop() once the boot button has been held    *)
(* for 5 s: the long press is an input here.                               *)
(***************************************************************************)
\* Lines 105-117: preferences.clear(), the display, then delay(2000).
factory_reset ==
    /\ prefs' = NoPrefs
    /\ pcMain' = "reset_delay"

FactoryResetClear ==
    /\ pcMain = "loop"
    /\ factory_reset
    /\ UNCHANGED <<attempts, serverUp, radioVars, httpVars, heap, tasks>>
    /\ UNCHANGED <<unitVars, loopVars>>

\* Line 120: ESP.restart().  RAM, the tasks and the radio start afresh; the
\* store is kept.
FactoryResetRestart ==
    /\ pcMain = "reset_delay"
    /\ pcMain' = "boot"
    /\ attempts' = 0
    /\ serverUp' = FALSE
    /\ apActive' = FALSE
    /\ staCfg' = NoCfg
    /\ staConnected' = FALSE
    /\ pending' = << >>
    /\ hpc' = "idle"
    /\ decrypted' = << >>
    /\ inv' = << >>
    /\ heap' = << >>
    /\ tasks' = << >>
    /\ UNCHANGED <<prefs, nreq>>
    /\ UNCHANGED <<unitVars, loopVars>>

Next ==
    \/ SetupBegin
    \/ SetupPoll
    \/ SetupCheck
    \/ Associate
    \/ Drop
    \/ ReceiveWhole
    \/ ReceiveFirst
    \/ ReceiveSecond
    \/ Dispatch
    \/ \E i \in DOMAIN tasks : TaskStart(i)
    \/ \E i \in DOMAIN tasks : TaskBegin(i)
    \/ \E i \in DOMAIN tasks : TaskPoll(i)
    \/ \E i \in DOMAIN tasks : TaskCheck(i)
    \/ \E i \in DOMAIN tasks : TaskPutPassword(i)
    \/ FactoryResetClear
    \/ FactoryResetRestart

Spec == Init /\ [][Next]_vars

\* The scheduler runs every task that is ready (each has priority 1 and
\* blocks only in delays): a task that can take a step eventually does.
connectToWiFi(i) ==
    /\ i \in DOMAIN tasks
    /\ \/ TaskStart(i)
       \/ TaskBegin(i)
       \/ TaskPoll(i)
       \/ TaskCheck(i)
       \/ TaskPutPassword(i)

\* An invocation creates at most one task; a split request has two.
TaskIds == 1 .. (2 * MaxRequests)

FairSpec == Spec /\ \A i \in TaskIds : WF_vars(connectToWiFi(i))

(***************************************************************************)
(* loop() with its timing: the device has booted with stored credentials   *)
(* and is connected; loop() polls the boot button.  The first poll         *)
(* followed here comes some seconds after boot, or after 2^32 ms of        *)
(* uptime less a little (millis() is about to wrap).                       *)
(***************************************************************************)
\* A duration in ticks
Ticks(ms) == ms \div Tick

\* The times of the first poll, in ticks
StartTimes ==
    { Ticks(HoldMs - ResetDelay), Wrap - Ticks(ResetDelay),
      Wrap - 2 * Ticks(LoopDelay) }

\* How much later than delay(100) asks the next iteration starts, in
\* ticks: loop() shares the processor with the other tasks.
Lateness == {0, Ticks(HoldMs \div 5 - LoopDelay)}

\* The time d ticks after t
After(t, d) == (t + d) % Wrap

\* millis() - pressStartTime in unsigned arithmetic, in ticks
Since(t, start) == (t - start + Wrap) % Wrap

LoopInit ==
    /\ pcMain = "loop"
    /\ prefs = [ssid |-> HomeSsid, password |-> HomePass]
    /\ attempts = 0
    /\ serverUp = TRUE
    /\ apActive = FALSE
    /\ staCfg = <<HomeSsid, HomePass>>
    /\ staConnected = TRUE
    /\ nreq = 0
    /\ pending = << >>
    /\ hpc = "idle"
    /\ decrypted = << >>
    /\ inv = << >>
    /\ heap = << >>
    /\ tasks = << >>
    /\ call = NoCall
    /\ pressStartTime = 0
    /\ millis \in StartTimes
    /\ level = "HIGH"
    /\ lowSince = -1
    /\ polls = 0

\* One iteration of loop(): digitalRead, the if statement with one call of
\* millis(), and delay(100); factory_reset does not return.
loop ==
    /\ pcMain = "loop"
    /\ polls < MaxPolls
    /\ polls' = polls + 1
    /\ \E read \in {"LOW", "HIGH"}, late \in Lateness :
        /\ level' = read
        /\ lowSince' = IF read = "HIGH" THEN -1
                       ELSE IF lowSince = -1 THEN millis ELSE lowSince
        /\ IF read = "LOW"
           THEN IF pressStartTime = 0
                THEN /\ pressStartTime' = millis
                     /\ millis' = After(millis, Ticks(LoopDelay) + late)
                     /\ UNCHANGED <<pcMain, prefs>>
                ELSE IF Since(millis, pressStartTime) >= Ticks(HoldMs)
                THEN /\ factory_reset
                     /\ millis' = After(millis, Ticks(ResetDelay))
                     /\ UNCHANGED pressStartTime
                ELSE /\ millis' = After(millis, Ticks(LoopDelay) + late)
                     /\ UNCHANGED <<pcMain, prefs, pressStartTime>>
           ELSE /\ pressStartTime' = 0
                /\ millis' = After(millis, Ticks(LoopDelay) + late)
                /\ UNCHANGED <<pcMain, prefs>>
    /\ UNCHANGED <<attempts, serverUp, radioVars, httpVars, heap, tasks>>
    /\ UNCHANGED unitVars

LoopNext == loop

LoopSpec == LoopInit /\ [][LoopNext]_vars

(***************************************************************************)
(* clean_string called on its own, once and then again on its result.      *)
(***************************************************************************)
\* The bytes of the inputs: controls (SOH, LF, US), space, 'A', '~', DEL and
\* a byte above 0x7F.
CleanBytes == {1, 10, 31, 32, 65, 126, 127, 200}

\* The strings of length n over the bytes in S
StringsOfLen(S, n) == [1 .. n -> S]

\* The strings of at most n bytes over S
StringsUpTo(S, n) == UNION { StringsOfLen(S, k) : k \in 0 .. n }

CleanInputs == StringsUpTo(CleanBytes, MaxCleanLen)

CleanInit ==
    /\ ProgInit
    /\ prefs = NoPrefs
    /\ NoPress
    /\ \E str \in CleanInputs :
         call = [fn |-> "clean_string", arg |-> str, ret |-> << >>,
                 prev |-> << >>, n |-> 0]

\* clean_string(str)
CallCleanString ==
    /\ call.fn = "clean_string"
    /\ call.n = 0
    /\ call' = [call EXCEPT !.ret = clean_string(call.arg), !.n = 1]
    /\ UNCHANGED <<progVars, loopVars>>

\* clean_string(str) again, on the buffer the first call left
CallCleanAgain ==
    /\ call.fn = "clean_string"
    /\ call.n = 1
    /\ call' = [call EXCEPT !.ret = clean_string(call.ret),
                            !.prev = call.ret, !.n = 2]
    /\ UNCHANGED <<progVars, loopVars>>

CleanNext == CallCleanString \/ CallCleanAgain

CleanSpec == CleanInit /\ [][CleanNext]_vars

(***************************************************************************)
(* The parser of connectToWiFi (line 137) called on its own.  The          *)
(* parameter of connectToWiFi is any C string; the strings it gets from    *)
(* handle_wifi_setup have at most 48 bytes.                                *)
(***************************************************************************)
\* n times the byte c
Rep(c, n) == [k \in 1 .. n |-> c]

\* SOH, space, 'a' and '|'
ParseBytes == {1, 32, 97, Pipe}

\* The lengths of the long fields: around the width of the conversions.
LongLens == {1, FieldWidth - 1, FieldWidth, FieldWidth + 1, FieldWidth + 2}

\* "aaa...|ppp...", and the same strings without the separator
LongInputs ==
    { Rep(97, n) \o <<Pipe>> \o Rep(112, m) : n \in LongLens, m \in LongLens }
        \cup { Rep(97, n) : n \in LongLens }

ParseInputs == StringsUpTo(ParseBytes, MaxParseLen) \cup LongInputs

ParseInit ==
    /\ ProgInit
    /\ prefs = NoPrefs
    /\ NoPress
    /\ \E credentials \in ParseInputs :
         call = [fn |-> "sscanf", arg |-> credentials, ret |-> << >>,
                 prev |-> << >>, n |-> 0]

\* sscanf(credentials, "%63[^|]|%63s", wifi_ssid, wifi_password)
CallSscanf ==
    /\ call.fn = "sscanf"
    /\ call.n = 0
    /\ call' = [call EXCEPT !.ret = sscanf(call.arg), !.n = 1]
    /\ UNCHANGED <<progVars, loopVars>>

ParseNext == CallSscanf

ParseSpec == ParseInit /\ [][ParseNext]_vars

(***************************************************************************)
(* One connection task from its creation on: the device has booted without *)
(* stored credentials, serves its access point, and has answered 200 to    *)
(* one request and created the task for it.  Whatever credentials the      *)
(* task configures, a network that accepts them may be in range.           *)
(***************************************************************************)
\* The longest C string decrypt_wifi_credentials can leave: 64 - 16 bytes
MaxPlainLen == EncBufSize - IvLen

\* The plaintexts: the short strings, and strings of full length
\* ("aaa...|ppp..." with fields of 1, 23, 24 or 46 bytes; no separator).
Plaintexts ==
    StringsUpTo(ParseBytes, MaxParseLen)
        \cup { Rep(97, n) \o <<Pipe>> \o Rep(112, MaxPlainLen - 1 - n) :
                    n \in {1, MaxPlainLen \div 2, MaxPlainLen - 2} }
        \cup { Rep(97, MaxPlainLen) }

\* The base64 text of IV || ciphertext for a plaintext: whole blocks
PayloadOf(pt) ==
    View("data", TRUE,
         IvLen + BlockSize * ((Len(pt) + BlockSize - 1) \div BlockSize), pt)

ConnectInit ==
    /\ pcMain = "loop"
    /\ prefs = NoPrefs
    /\ attempts = 0
    /\ serverUp = TRUE
    /\ apActive = TRUE
    /\ staCfg = NoCfg
    /\ staConnected = FALSE
    /\ nreq = MaxRequests
    /\ pending = << >>
    /\ hpc = "idle"
    /\ decrypted = << >>
    /\ heap = <<"live">>
    /\ \E pt \in Plaintexts :
         /\ inv = << [req |-> 1, body |-> PayloadOf(pt), index |-> 0,
                      split |-> FALSE, view |-> PayloadOf(pt),
                      resp |-> handle_wifi_setup(PayloadOf(pt)).resp,
                      created |-> TRUE] >>
         /\ tasks = (1 :> NewTask(pt))
    /\ call = NoCall
    /\ NoPress

\* The station associates with the network it is configured for.
AssociateAny ==
    /\ ~staConnected
    /\ staCfg # NoCfg
    /\ staConnected' = TRUE
    /\ UNCHANGED <<mainVars, prefs, apActive, staCfg, httpVars,
                   heap, tasks>>
    /\ UNCHANGED <<unitVars, loopVars>>

ConnectNext ==
    \/ \E i \in DOMAIN tasks : TaskStart(i)
    \/ \E i \in DOMAIN tasks : TaskBegin(i)
    \/ \E i \in DOMAIN tasks : TaskPoll(i)
    \/ \E i \in DOMAIN tasks : TaskCheck(i)
    \/ \E i \in DOMAIN tasks : TaskPutPassword(i)
    \/ AssociateAny
    \/ Drop

ConnectSpec == ConnectInit /\ [][ConnectNext]_vars

(***************************************************************************)
(* decrypt_wifi_credentials and handle_wifi_setup called on their own.     *)
(***************************************************************************)
DecodedLens ==
    (0 .. MaxDecodedLen)
        \cup ((OutputSize + IvLen - 1) .. (OutputSize + IvLen + 1))

\* What `output` can hold as a C string once the NUL is written at
\* ciphertext_len: at most ciphertext_len bytes, the plaintext up to its
\* first NUL.  When ciphertext_len is not a multiple of 16,
\* mbedtls_aes_crypt_cbc returns an error and writes nothing, and the bytes
\* are those the uninitialised buffer `decrypted` happened to hold.
Outputs(len) ==
    { pt \in {<< >>, PlainHome, PlainNoSep} : Len(pt) <= len - IvLen }

DecryptInputs ==
    { View("data", FALSE, 0, << >>) }
        \cup { View("data", TRUE, len, << >>) : len \in DecodedLens }
        \cup UNION { { View("data", TRUE, len, pt) : pt \in Outputs(len) } :
                        len \in IvLen .. EncBufSize }

DecryptInit ==
    /\ ProgInit
    /\ prefs = NoPrefs
    /\ NoPress
    /\ \E fn \in {"decrypt_wifi_credentials", "handle_wifi_setup"},
          v \in DecryptInputs :
         call = [fn |-> fn, arg |-> v, ret |-> << >>, prev |-> << >>,
                 n |-> 0]

\* decrypt_wifi_credentials(text, decrypted, sizeof(decrypted))
CallDecrypt ==
    /\ call.fn = "decrypt_wifi_credentials"
    /\ call.n = 0
    /\ call' = [call EXCEPT
                    !.ret = decrypt_wifi_credentials(call.arg, OutputSize),
                    !.n = 1]
    /\ UNCHANGED <<progVars, loopVars>>

\* handle_wifi_setup on a body whose "data" is the text
CallHandler ==
    /\ call.fn = "handle_wifi_setup"
    /\ call.n = 0
    /\ call' = [call EXCEPT !.ret = handle_wifi_setup(call.arg), !.n = 1]
    /\ UNCHANGED <<progVars, loopVars>>

DecryptNext == CallDecrypt \/ CallHandler

DecryptSpec == DecryptInit /\ [][DecryptNext]_vars

(***************************************************************************)
(* Vocabulary of the properties.                                           *)
(***************************************************************************)
\* The decode or decrypt stage fails on the text of "data": not base64,
\* more than 64 decoded bytes, or fewer than 16.
DecodeFails(v) ==
    /\ v.kind = "data"
    /\ (~v.b64 \/ v.len > EncBufSize \/ v.len < IvLen)

\* The text of "data" passes decode and decrypt.
Decrypts(v) ==
    /\ v.kind = "data"
    /\ v.b64
    /\ v.len >= IvLen
    /\ v.len <= EncBufSize

\* handle_wifi_setup has returned from invocation i.
Returned(i) == i < Len(inv) \/ hpc = "idle"

\* Every chunk of the request of invocation i has been handled.
Complete(i) ==
    /\ Returned(i)
    /\ \A k \in DOMAIN inv : inv[k].req = inv[i].req => Returned(k)
    /\ (pending = << >> \/ pending[1].req # inv[i].req)

\* The invocations that answered the request of invocation i.
Answers(i) == {k \in DOMAIN inv : inv[k].req = inv[i].req}

\* The response the request's body calls for: the first failing check.
Expected(body) ==
    IF body.kind = "badjson" THEN Response(400, "Invalid JSON")
    ELSE IF body.kind = "nodata" THEN Response(400, "Missing 'data' parameter")
    ELSE IF DecodeFails(body) THEN Response(400, "Decryption Failed")
    ELSE Response(200, "WiFi Credentials Processing...")

Stored == prefs.ssid # << >> /\ prefs.password # << >>

SetupPcs == {"boot", "setup_poll", "setup_check"}

\* setup returns in this step.
SetupReturns == pcMain \in SetupPcs /\ pcMain' = "loop"

\* ESP.restart() in this step.
Restarts == pcMain = "reset_delay" /\ pcMain' = "boot"

Live(i) == i \in DOMAIN tasks /\ tasks[i].pc # "done"

AllTasksDone == \A i \in DOMAIN tasks : tasks[i].pc = "done"

\* Task i ends with this outcome in this step.
EndsWith(i, outcome) ==
    /\ i \in DOMAIN tasks /\ i \in DOMAIN tasks'
    /\ tasks[i].outcome = "none"
    /\ tasks'[i].outcome = outcome

\* How far a task has come: every step of it moves it forward.
PcRank(pc) ==
    CASE pc = "start" -> 0
      [] pc = "delay" -> 1
      [] pc = "poll" -> 2
      [] pc = "check" -> 3
      [] pc = "put_password" -> 4
      [] pc = "done" -> 5

Rank(t) == PcRank(t.pc) * (MaxAttempts + 1) + t.attempts

(***************************************************************************)
(* C1.  A request whose "data" fails the decode or decrypt stage (not      *)
(* base64, more than 64 decoded bytes, fewer than 16) is answered          *)
(* 400 "Decryption Failed", no connection task is created for it, and the  *)
(* handler leaves the store and the radio as they were.                    *)
(***************************************************************************)
C1_DecodeFailureRejected ==
    /\ [](\A i \in DOMAIN inv :
            DecodeFails(inv[i].view) =>
                /\ inv[i].resp = Response(400, "Decryption Failed")
                /\ ~inv[i].created
                /\ i \notin DOMAIN tasks
                /\ heap[i] = "none")
    /\ [][(Len(inv') = Len(inv) + 1 /\ DecodeFails(inv'[Len(inv')].view)) =>
            /\ prefs' = prefs
            /\ apActive' = apActive
            /\ staCfg' = staCfg
            /\ staConnected' = staConnected
            /\ tasks' = tasks
            /\ hpc' = "idle"]_vars

\* Two requests have been answered, one whose "data" decodes to more than
\* 64 bytes and one whose "data" decodes to fewer than 16.
C1_Witness ==
    \E i, j \in DOMAIN inv :
        /\ inv[i].view.kind = "data" /\ inv[i].view.b64
        /\ inv[i].view.len > EncBufSize
        /\ inv[j].view.kind = "data" /\ inv[j].view.b64
        /\ inv[j].view.len < IvLen
        /\ inv[i].resp.code = 400 /\ inv[j].resp.code = 400

(***************************************************************************)
(* C2.  A request whose decrypted plaintext does not parse as              *)
(* "<ssid>|<password>" is answered 400 and never 200.                      *)
(***************************************************************************)
C2_ParseFailureRejected ==
    \A i \in DOMAIN inv :
        (Decrypts(inv[i].view) /\ sscanf(inv[i].view.pt).n # 2) =>
            /\ inv[i].resp.code = 400
            /\ inv[i].resp.code # 200

(***************************************************************************)
(* C3.  The 200 acknowledgment comes before the task is created, every     *)
(* 200 response gets exactly one connection task, and the response does    *)
(* not depend on how that task ends.                                       *)
(***************************************************************************)
C3_OneTaskPerAcknowledgment ==
    \A i \in DOMAIN inv :
        /\ inv[i].created => inv[i].resp.code = 200
        /\ (i \in DOMAIN tasks) = inv[i].created
        /\ (inv[i].resp.code = 200 /\ Returned(i)) => inv[i].created
        /\ inv[i].resp = handle_wifi_setup(inv[i].view).resp

(***************************************************************************)
(* C4.  Every request gets exactly one response, the one its body calls    *)
(* for, however the body is delivered to the handler.                      *)
(***************************************************************************)
C4_OneResponsePerRequest ==
    \A i \in DOMAIN inv :
        Complete(i) =>
            /\ Cardinality(Answers(i)) = 1
            /\ inv[i].resp = Expected(inv[i].body)

(***************************************************************************)
(* C5.  A task starts writing to the store only when the station is        *)
(* connected by an association made with that task's own credentials.      *)
(***************************************************************************)
C5_WritesOnlyOwnConnection ==
    [][\A i \in DOMAIN tasks :
          (i \in DOMAIN tasks' /\ tasks[i].puts = 0 /\ tasks'[i].puts > 0) =>
              /\ staConnected
              /\ staCfg = <<tasks[i].wifi_ssid, tasks[i].wifi_password>>]_vars

(***************************************************************************)
(* C6.  A task that ends without a connection (retry loop exhausted, or    *)
(* plaintext rejected by the parser) has written nothing to the store, and *)
(* the step in which it ends leaves the store as it was.                   *)
(***************************************************************************)
C6_NoWriteWithoutConnection ==
    /\ [](\A i \in DOMAIN tasks :
            tasks[i].outcome \in {"failed", "badformat", "null"} =>
                tasks[i].puts = 0)
    /\ [][\A i \in DOMAIN tasks :
            (\/ EndsWith(i, "failed")
             \/ EndsWith(i, "badformat")
             \/ EndsWith(i, "null")) => prefs' = prefs]_vars
    /\ [][\A i \in DOMAIN tasks :
            (i \in DOMAIN tasks' /\ tasks'[i].puts = tasks[i].puts
                /\ tasks'[i] # tasks[i]) => prefs' = prefs]_vars

\* One task has ended failed and another was rejected by the parser, with
\* a record in the store.
C6_Witness ==
    \E i, j \in DOMAIN tasks :
        /\ tasks[i].outcome = "failed"
        /\ tasks[j].outcome = "badformat"
        /\ Stored

(***************************************************************************)
(* C7.  Every buffer strdup returned is released: once the handler has     *)
(* returned, a buffer that is not yet freed belongs to a task that is      *)
(* still running and will free it.                                         *)
(***************************************************************************)
C7_NoLeak ==
    \A i \in DOMAIN heap :
        (heap[i] = "live" /\ Returned(i)) => Live(i)

(***************************************************************************)
(* C8 as stated.  A task waits at most 20 times, declares failure only     *)
(* after the 20th wait, ends connected or failed, and nothing ends it      *)
(* before that.                                                            *)
(***************************************************************************)
C8_ConnectedOrFailedAfterCap ==
    [][/\ DOMAIN tasks \subseteq DOMAIN tasks'
       /\ \A i \in DOMAIN tasks' :
            /\ tasks'[i].attempts <= MaxAttempts
            /\ tasks'[i].pc = "done" =>
                    tasks'[i].outcome \in {"connected", "failed"}
            /\ tasks'[i].outcome = "failed" => tasks'[i].capped]_vars

(***************************************************************************)
(* C8 as amended.  Unless the device restarts first, a task runs to an     *)
(* end: it can always take its next step, every step moves it forward, it  *)
(* waits at most 20 times, and it ends in exactly one of the outcomes      *)
(* null, badformat (both before any use of the radio), connected or        *)
(* failed; it declares failure exactly when the status read after the loop *)
(* is not WL_CONNECTED.                                                    *)
(***************************************************************************)
C8_TaskRunsToAnEnd ==
    /\ [](\A i \in DOMAIN tasks :
            /\ tasks[i].attempts <= MaxAttempts
            /\ (tasks[i].pc = "done") = (tasks[i].outcome # "none")
            /\ tasks[i].outcome \in
                    {"none", "null", "badformat", "connected", "failed"}
            /\ Live(i) => ENABLED connectToWiFi(i))
    /\ [][\/ Restarts /\ tasks' = << >>
          \/ \A i \in DOMAIN tasks :
                /\ i \in DOMAIN tasks'
                /\ \/ tasks'[i] = tasks[i]
                   \/ Live(i) /\ Rank(tasks'[i]) > Rank(tasks[i])
                /\ EndsWith(i, "failed") =>
                        tasks[i].pc = "check" /\ ~staConnected
                /\ (tasks[i].pc = "check" /\ tasks'[i] # tasks[i]
                        /\ ~staConnected) => EndsWith(i, "failed")
                /\ EndsWith(i, "connected") => tasks[i].pc = "put_password"
                /\ (EndsWith(i, "badformat") \/ EndsWith(i, "null")) =>
                        /\ tasks[i].pc = "start"
                        /\ <<apActive, staCfg, staConnected>>' =
                                <<apActive, staCfg, staConnected>>]_vars

\* A task has declared failure before its 20th wait, and another has
\* ended connected.
C8_Witness ==
    \E i, j \in DOMAIN tasks :
        /\ tasks[i].outcome = "failed" /\ ~tasks[i].capped
        /\ tasks[j].outcome = "connected"

(***************************************************************************)
(* C9 as stated.  setup starts the access point if and only if there are   *)
(* no stored credentials or the station is still not connected after 20    *)
(* polls; it then starts the server.                                       *)
(***************************************************************************)
C9_ApIffNoneOrTwentyPolls ==
    [][SetupReturns =>
        /\ serverUp'
        /\ apActive' = (~Stored \/ (attempts = MaxAttempts /\ ~staConnected))
      ]_vars

(***************************************************************************)
(* C9 as amended.  setup starts the access point if and only if there are  *)
(* no stored credentials or the station is not connected when setup reads  *)
(* the status after its polling loop (which waits at most 20 times);       *)
(* otherwise the station is connected with the stored credentials and the  *)
(* access point is off.  The server starts only then.                      *)
(***************************************************************************)
C9_ApIffNoneOrNotConnected ==
    /\ [](attempts <= MaxAttempts)
    /\ [](pcMain \in SetupPcs => ~serverUp)
    /\ [][SetupReturns =>
            /\ serverUp'
            /\ apActive' = (~Stored \/ ~staConnected)
            /\ ~apActive' => /\ staConnected'
                             /\ staCfg' = <<prefs.ssid, prefs.password>>
          ]_vars

\* setup has returned with the access point up although credentials are
\* stored, and no request has been handled since.
C9_Witness ==
    /\ pcMain = "loop"
    /\ serverUp
    /\ apActive
    /\ Stored
    /\ inv = << >>

(***************************************************************************)
(* C10.  After a connection attempt that failed with its retry loop        *)
(* exhausted, the device is either connected as a station or serving its   *)
(* access point, once nothing is running.                                  *)
(***************************************************************************)
C10_FallsBackToAp ==
    (/\ \E i \in DOMAIN tasks :
            tasks[i].outcome = "failed" /\ tasks[i].capped
     /\ AllTasksDone
     /\ hpc = "idle"
     /\ pcMain = "loop") => (apActive \/ staConnected)

(***************************************************************************)
(* C15.  Whatever string clean_string is called on, the string it leaves   *)
(* has no byte outside [0x20, 0x7E] and is exactly the bytes of the input  *)
(* that lie inside [0x20, 0x7E], in their order; it is never longer than   *)
(* the input.                                                              *)
(***************************************************************************)
Printable(c) == c >= 32 /\ c <= 126

C15_CleanKeepsPrintableSubsequence ==
    (call.fn = "clean_string" /\ call.n = 1) =>
        /\ \A k \in DOMAIN call.ret : Printable(call.ret[k])
        /\ call.ret = SelectSeq(call.arg, Printable)
        /\ Len(call.ret) <= Len(call.arg)

\* clean_string has been called on LF 'A' DEL and has left "A".
C15_Witness ==
    /\ call.fn = "clean_string"
    /\ call.n = 1
    /\ call.arg = <<10, 65, 127>>
    /\ call.ret = <<65>>

(***************************************************************************)
(* C17.  clean_string is idempotent: called again on the string it left,   *)
(* it leaves that string as it is.                                         *)
(***************************************************************************)
C17_CleanIdempotent ==
    (call.fn = "clean_string" /\ call.n = 2) => call.ret = call.prev

\* clean_string has been called twice on a string with two unprintable
\* bytes in a row, and something is left of it.
C17_Witness ==
    /\ call.fn = "clean_string"
    /\ call.n = 2
    /\ call.arg = <<1, 200, 65>>
    /\ call.ret = <<65>>

(***************************************************************************)
(* C18.  Called by handle_wifi_setup with the 128-byte buffer,             *)
(* decrypt_wifi_credentials succeeds exactly when the text is base64 that  *)
(* decodes to 16..64 bytes, whether or not the ciphertext is a whole       *)
(* number of blocks; it never returns from the output-too-small branch;    *)
(* it writes the NUL at index L - 16, at most 48 and inside the buffer;    *)
(* and the handler answers 200 and goes on to dispatch exactly then.       *)
(***************************************************************************)
C18_DecryptSucceedsIffLengthInRange ==
    /\ (call.fn = "decrypt_wifi_credentials" /\ call.n = 1) =>
            /\ call.ret.ok = Decrypts(call.arg)
            /\ call.ret.why # "small"
            /\ call.ret.ok =>
                    /\ call.ret.nul = call.arg.len - IvLen
                    /\ call.ret.nul >= 0
                    /\ call.ret.nul <= EncBufSize - IvLen
                    /\ call.ret.nul < OutputSize
                    /\ Len(call.ret.output) <= call.ret.nul
            /\ ~call.ret.ok => call.ret.nul = -1
    /\ (call.fn = "handle_wifi_setup" /\ call.n = 1) =>
            /\ (call.ret.resp.code = 200) = Decrypts(call.arg)
            /\ call.ret.dispatch = Decrypts(call.arg)
            /\ ~Decrypts(call.arg) =>
                    call.ret.resp = Response(400, "Decryption Failed")

\* handle_wifi_setup has answered 200 to a payload of 16 + 5 bytes.
C18_Witness ==
    /\ call.fn = "handle_wifi_setup"
    /\ call.n = 1
    /\ call.arg.len = IvLen + 5
    /\ call.arg.pt = PlainHome
    /\ call.ret.resp.code = 200
    /\ call.ret.dispatch

(***************************************************************************)
(* C14.  The parser fails whenever the plaintext has no '|', whenever the  *)
(* part before the first '|' is longer than 63 bytes and whenever the part *)
(* after the first '|' is longer than 63 bytes: an over-long field is      *)
(* never truncated and accepted.                                           *)
(***************************************************************************)
\* The position of the first '|' of s, Len(s) + 1 when it has none
RECURSIVE FirstPipe(_, _)
FirstPipe(s, i) ==
    IF i > Len(s) \/ s[i] = Pipe THEN i ELSE FirstPipe(s, i + 1)

HasPipe(s) == FirstPipe(s, 1) <= Len(s)
BeforePipe(s) == SubSeq(s, 1, FirstPipe(s, 1) - 1)
AfterPipe(s) == SubSeq(s, FirstPipe(s, 1) + 1, Len(s))

IsField(s) ==
    /\ Len(s) >= 1
    /\ Len(s) <= FieldWidth
    /\ \A k \in DOMAIN s : Printable(s[k])

WellFormed(pt) ==
    /\ HasPipe(pt)
    /\ IsField(BeforePipe(pt))
    /\ IsField(AfterPipe(pt))

C13_ParserRecoversFields ==
    \A i \in DOMAIN tasks :
        LET pt == inv[i].view.pt
            t  == tasks[i]
        IN  WellFormed(pt) =>
                /\ t.outcome \notin {"badformat", "null"}
                /\ t.pc \in {"delay", "poll", "check", "put_password"} =>
                        /\ t.wifi_ssid = BeforePipe(pt)
                        /\ t.wifi_password = AfterPipe(pt)
                /\ t.pc \in {"poll", "check", "put_password"} =>
                        staCfg = <<BeforePipe(pt), AfterPipe(pt)>>
                /\ t.puts >= 1 => prefs.ssid = BeforePipe(pt)
                /\ t.puts >= 2 => prefs.password = AfterPipe(pt)

(***************************************************************************)
(* C19.  The ssid and the password a task hands to WiFi.begin and writes   *)
(* to the store have at most 63 bytes each, all of them in [0x20, 0x7E]:   *)
(* the task holds only sanitized fields once it has parsed them.           *)
(***************************************************************************)
Sanitized(s) ==
    /\ Len(s) <= FieldWidth
    /\ \A k \in DOMAIN s : Printable(s[k])

C19_FieldsSanitizedBeforeUse ==
    /\ \A i \in DOMAIN tasks :
            Sanitized(tasks[i].wifi_ssid) /\ Sanitized(tasks[i].wifi_password)
    /\ staCfg # NoCfg => Sanitized(staCfg[1]) /\ Sanitized(staCfg[2])
    /\ Sanitized(prefs.ssid)
    /\ Sanitized(prefs.password)

\* The task of the plaintext SOH 'a' '|' 'a' has connected and stored "a"
\* and "a".
C19_Witness ==
    /\ 1 \in DOMAIN tasks
    /\ inv[1].view.pt = <<1, 97, Pipe, 97>>
    /\ tasks[1].outcome = "connected"
    /\ staCfg = <<(<<97>>), (<<97>>)>>
    /\ prefs = [ssid |-> <<97>>, password |-> <<97>>]

(***************************************************************************)
(* C16.  A "data" that decodes to the 16 bytes of the IV alone is handled  *)
(* without a write out of bounds (the NUL goes to output[0]); its empty    *)
(* plaintext is rejected by the parser of the task, if a task is created   *)
(* at all; and neither the handler nor that task reconfigures the radio    *)
(* or writes to the store.                                                 *)
(***************************************************************************)
IvOnly(v) == v.kind = "data" /\ v.b64 /\ v.len = IvLen

C16_IvOnlyPayloadHarmless ==
    /\ [](\A i \in DOMAIN inv :
            IvOnly(inv[i].view) =>
                /\ decrypt_wifi_credentials(inv[i].view, OutputSize).nul = 0
                /\ decrypt_wifi_credentials(inv[i].view, OutputSize).output
                        = << >>
                /\ inv[i].resp.code \in {200, 400}
                /\ i \in DOMAIN tasks =>
                        /\ tasks[i].pc \in {"start", "done"}
                        /\ tasks[i].outcome \in {"none", "badformat", "null"}
                        /\ tasks[i].puts = 0)
    /\ [][\A i \in DOMAIN inv' :
            (/\ IvOnly(inv'[i].view)
             /\ \/ i \notin DOMAIN inv
                \/ (i \in DOMAIN tasks' /\ i \notin DOMAIN tasks)
                \/ (i \in DOMAIN tasks /\ i \in DOMAIN tasks'
                        /\ tasks'[i] # tasks[i])) =>
                /\ prefs' = prefs
                /\ <<apActive, staCfg, staConnected>>' =
                        <<apActive, staCfg, staConnected>>]_vars

\* The task created for an IV-only payload has ended on the parser's
\* rejection while the station is connected and credentials are stored.
C16_Witness ==
    \E i \in DOMAIN tasks :
        /\ IvOnly(inv[i].view)
        /\ tasks[i].outcome = "badformat"
        /\ staConnected
        /\ Stored

(***************************************************************************)
(* C12.  When the device restarts at the end of factory_reset, the store   *)
(* holds no ssid and no password, whatever the connection tasks did while  *)
(* factory_reset was running.                                              *)
(***************************************************************************)
C12_StoreEmptyAtRestart ==
    [][Restarts => (prefs = NoPrefs /\ prefs' = NoPrefs)]_vars

(***************************************************************************)
(* C20.  When setup reads the store at boot, the stored ssid and password  *)
(* are both absent or are the pair of one accepted request.                *)
(***************************************************************************)
\* The pairs the requests of the model can make a task store, and the
\* pairs an earlier run can have left.
AcceptedPairs ==
    { [ssid |-> clean_string(sscanf(v.pt).wifi_ssid),
       password |-> clean_string(sscanf(v.pt).wifi_password)] :
        v \in { w \in Payloads : Decrypts(w) /\ sscanf(w.pt).n = 2 } }
        \cup (InitPrefs \ {NoPrefs})

C20_StoredPairConsistent ==
    pcMain = "boot" => (prefs = NoPrefs \/ prefs \in AcceptedPairs)

(***************************************************************************)
(* C11.  loop() calls factory_reset at a poll if and only if that poll and *)
(* the polls before it, back to one at least 5000 ms earlier, all read the *)
(* button pressed; a poll that reads it released sets the hold timer to 0. *)
(***************************************************************************)
C11_ResetIffHeldFiveSeconds ==
    [][polls' = polls + 1 =>
        /\ (pcMain' = "reset_delay") =
                (/\ level' = "LOW"
                 /\ Since(millis, lowSince') >= Ticks(HoldMs))
        /\ level' = "HIGH" => pressStartTime' = 0]_vars

=============================================================================
